---- MODULE Spec2Model ----
(***************************************************************************)
(* Model of the Perplexity Sonar maubot plugin (src/perplexity_bot.py):    *)
(* the responder gate (should_respond, user_allowed), the answer pipeline  *)
(* (on_message, _call_openrouter) and the `sonar` command wrapper.         *)
(*                                                                         *)
(* Text (message bodies, user ids, allow-list patterns) is a sequence of   *)
(* one-character strings, so that prefix tests, regular-expression         *)
(* matching, substitution and trimming are computed and not assumed.       *)
(***************************************************************************)
EXTENDS Integers, Sequences, FiniteSets, TLC

----------------------------------------------------------------------------
(* Bounds of the model *)

\* longest body / question text enumerated in the text specification
MaxBodyLen == 4
\* longest allow-list pattern (in atoms) enumerated in the allow-list specification
MaxPatLen == 2
\* longest user id enumerated in the allow-list specification
MaxIdLen == 3
\* number of inbound events delivered in one behaviour
MaxEvents == 2

----------------------------------------------------------------------------
(* Characters and text helpers *)

UpperSeq == <<"A","B","C","D","E","F","G","H","I","J","K","L","M",
              "N","O","P","Q","R","S","T","U","V","W","X","Y","Z">>
LowerSeq == <<"a","b","c","d","e","f","g","h","i","j","k","l","m",
              "n","o","p","q","r","s","t","u","v","w","x","y","z">>

\* re.IGNORECASE compares characters after case folding
Lower(c) ==
    IF \E i \in 1..26 : UpperSeq[i] = c
    THEN LowerSeq[CHOOSE i \in 1..26 : UpperSeq[i] = c]
    ELSE c

\* the class \s of the re module, and the characters str.strip() removes
IsSpace(c) == c \in {" ", "\t", "\n", "\r", "\f"}

\* the class [ :,.!?] that must follow the name in the gate's pattern
IsGateBoundary(c) == c \in {" ", ":", ",", ".", "!", "?"}

\* the class [\s:,.!?] that the pipeline's substitution swallows after the name
IsSubTail(c) == IsSpace(c) \/ c \in {":", ",", ".", "!", "?"}

\* str.startswith
StartsWith(s, p) ==
    /\ Len(s) >= Len(p)
    /\ \A i \in 1..Len(p) : s[i] = p[i]

\* the slice s[n:] of a Python string (n characters dropped from the front)
DropFirst(s, n) == IF n >= Len(s) THEN <<>> ELSE SubSeq(s, n + 1, Len(s))

RECURSIVE LStrip(_)
LStrip(s) ==
    IF s # <<>> /\ IsSpace(Head(s)) THEN LStrip(Tail(s)) ELSE s

RECURSIVE RStrip(_)
RStrip(s) ==
    IF s # <<>> /\ IsSpace(s[Len(s)]) THEN RStrip(SubSeq(s, 1, Len(s) - 1)) ELSE s

\* str.strip() with no argument
Strip(s) == RStrip(LStrip(s))

\* the literal bot name (re.escape makes every character literal) occurs in
\* body at position j, compared case-insensitively
NameAt(name, body, j) ==
    /\ j >= 1
    /\ j + Len(name) - 1 <= Len(body)
    /\ \A k \in 1..Len(name) : Lower(body[j + k - 1]) = Lower(name[k])

\* `$` without re.MULTILINE: at the end of the string, or just before a
\* newline that is the last character of the string
AtDollar(s, j) ==
    \/ j = Len(s) + 1
    \/ (j = Len(s) /\ s[j] = "\n")

CmdPrefix == <<"!">>
SonarToken == <<"!", "s", "o", "n", "a", "r">>

----------------------------------------------------------------------------
(* user_allowed: the allow-list check (lines 35-42) *)

\* An allow-list pattern is a sequence of atoms of a regular expression:
\*   "."   any character but a newline       ".*"  any run of such characters
\*   "$"   the end of the string              "\\." a literal dot
\*   any other one-character string: that character
\* ReMatchFrom decides whether atoms i.. of pattern p match s from position j
\* on; like re.match it does not ask the match to reach the end of s.
RECURSIVE ReMatchFrom(_, _, _, _)
ReMatchFrom(p, s, i, j) ==
    IF i > Len(p) THEN TRUE
    ELSE IF p[i] = ".*" THEN
        \E k \in j..(Len(s) + 1) :
            /\ \A m \in j..(k - 1) : s[m] # "\n"
            /\ ReMatchFrom(p, s, i + 1, k)
    ELSE IF p[i] = "$" THEN
        AtDollar(s, j) /\ ReMatchFrom(p, s, i + 1, j)
    ELSE IF p[i] = "." THEN
        j <= Len(s) /\ s[j] # "\n" /\ ReMatchFrom(p, s, i + 1, j + 1)
    ELSE IF p[i] = "\\." THEN
        j <= Len(s) /\ s[j] = "." /\ ReMatchFrom(p, s, i + 1, j + 1)
    ELSE
        j <= Len(s) /\ s[j] = p[i] /\ ReMatchFrom(p, s, i + 1, j + 1)

\* re.match(pattern, mxid): the pattern is anchored at the start of mxid only
ReMatch(pattern, mxid) == ReMatchFrom(pattern, mxid, 1, 1)

\* the for loop of lines 39-41, from pattern i on
RECURSIVE AnyPatternFrom(_, _, _)
AnyPatternFrom(allowed_users, mxid, i) ==
    IF i > Len(allowed_users) THEN FALSE
    ELSE IF ReMatch(allowed_users[i], mxid) THEN TRUE
    ELSE AnyPatternFrom(allowed_users, mxid, i + 1)

\* mutation: no sender is refused
user_allowed_everyone(allowed_users, mxid) == TRUE

\* mutation: only the first pattern of the list is tried
user_allowed_first_only(allowed_users, mxid) ==
    IF allowed_users = <<>> THEN TRUE
    ELSE ReMatch(allowed_users[1], mxid)

user_allowed(allowed_users, mxid) ==
    IF allowed_users = <<>> THEN TRUE
    ELSE AnyPatternFrom(allowed_users, mxid, 1)

----------------------------------------------------------------------------
(* The name-mention pattern of the gate (line 54) *)

\* mutation: the pattern without its trailing ([ :,.!?]|$)
GateMatchAt_no_boundary(name, body, i) ==
    \E pre \in {0, 1}, at \in {0, 1} :
        /\ pre = 0 => i = 1
        /\ pre = 1 => (i <= Len(body) /\ IsSpace(body[i]))
        /\ at = 1 => (i + pre <= Len(body) /\ body[i + pre] = "@")
        /\ NameAt(name, body, i + pre + at)

\* one attempt of (^|\s)(@)?NAME([ :,.!?]|$) with the match starting at i
GateMatchAt(name, body, i) ==
    \E pre \in {0, 1}, at \in {0, 1} :
        /\ pre = 0 => i = 1
        /\ pre = 1 => (i <= Len(body) /\ IsSpace(body[i]))
        /\ at = 1 => (i + pre <= Len(body) /\ body[i + pre] = "@")
        /\ NameAt(name, body, i + pre + at)
        /\ LET e == i + pre + at + Len(name)
           IN  \/ (e <= Len(body) /\ IsGateBoundary(body[e]))
               \/ AtDollar(body, e)

\* re.search tries every start position from the left
RECURSIVE GateSearchFrom(_, _, _)
GateSearchFrom(name, body, i) ==
    IF i > Len(body) + 1 THEN FALSE
    ELSE IF GateMatchAt(name, body, i) THEN TRUE
    ELSE GateSearchFrom(name, body, i + 1)

name_mentioned(name, body) == GateSearchFrom(name, body, 1)

----------------------------------------------------------------------------
(* Query derivation of the pipeline (lines 95-100) *)

\* the greedy tail [\s:,.!?]* from position j: the position after it
RECURSIVE SkipTail(_, _)
SkipTail(body, j) ==
    IF j <= Len(body) /\ IsSubTail(body[j]) THEN SkipTail(body, j + 1) ELSE j

\* @?NAME[\s:,.!?]* tried at position i: the position after the match, 0 if none
SubMatchEnd(name, body, i) ==
    IF i <= Len(body) /\ body[i] = "@" /\ NameAt(name, body, i + 1)
    THEN SkipTail(body, i + 1 + Len(name))
    ELSE IF NameAt(name, body, i)
    THEN SkipTail(body, i + Len(name))
    ELSE 0

\* re.sub(pattern, '', body): leftmost non-overlapping matches are removed
RECURSIVE RemoveName(_, _, _)
RemoveName(name, body, i) ==
    IF i > Len(body) THEN <<>>
    ELSE LET e == SubMatchEnd(name, body, i)
         IN  IF e # 0 THEN RemoveName(name, body, e)
             ELSE <<body[i]>> \o RemoveName(name, body, i + 1)

\* mutation: the results are not trimmed
derive_query_unstripped(name, body) ==
    IF StartsWith(body, SonarToken)
    THEN DropFirst(body, 6)
    ELSE RemoveName(name, body, 1)

derive_query(name, body) ==
    IF StartsWith(body, SonarToken)
    THEN Strip(DropFirst(body, 6))
    ELSE Strip(RemoveName(name, body, 1))

----------------------------------------------------------------------------
(* Identities, rooms, configuration and inbound events of the main model *)

BotMxid == <<"@","b","o","t",":","e","x",".","o","r","g">>
Alice == <<"@","a","l","i","c","e",":","e","x",".","o","r","g">>
Mallory == <<"@","m","a","l",":","e","x",".","o","r","g">>
Senders == {BotMxid, Alice, Mallory}

\* the default of config.get("name", "fxivity")
DefaultName == <<"f","x","i","v","i","t","y">>

\* allowed_users as an administrator writes it: the user id as a pattern
\* (its dots are the regular expression's "any character")
AlicePattern == Alice
AllowLists == {<<>>, <<AlicePattern>>}

Rooms == {"!dm", "!group"}
\* len(get_joined_members(room)) when the lookup succeeds
JoinedCount == [r \in Rooms |-> IF r = "!dm" THEN 2 ELSE 3]

MsgText == "m.text"
MsgNotice == "m.notice"
MsgImage == "m.image"

BodyMention == DefaultName \o <<":"," ","h","i">>
BodyPlain == <<"h","i">>
BodyEmbedded == DefaultName \o <<"i","s","h"," ","h","i">>
BodySonar == SonarToken \o <<" ","h","i">>
BodyBang == <<"!","h","i">>
Bodies == {BodyMention, BodyPlain, BodyEmbedded, BodySonar, BodyBang}

\* what the provider can answer with
Answers == {<<"4">>}
Statuses == {200, 500}

NoEvt == [id |-> 0]
NoExc == <<>>
\* no completion request was issued
NoOutcome == [kind |-> "none", status |-> 0, readable |-> FALSE, wellformed |-> FALSE,
              content |-> <<>>]

\* exception texts, str(e) in line 117
ExcMarkRead == <<"r","e","a","d">>
ExcTyping == <<"t","y","p","i","n","g">>
ExcTransport == <<"t","i","m","e","o","u","t">>
ExcPayload == <<"c","h","o","i","c","e","s">>
ExcSend == <<"s","e","n","d">>

ErrorPrefix == <<"E","r","r","o","r",":"," ","A","P","I"," ","r","e","t","u","r","n","e","d",
                 " ","s","t","a","t","u","s"," ">>
FailurePrefix == <<"S","o","m","e","t","h","i","n","g"," ","w","e","n","t"," ",
                   "w","r","o","n","g",":"," ">>

DigitChars == <<"0","1","2","3","4","5","6","7","8","9">>

\* the decimal text of a natural number, as an f-string formats it
RECURSIVE Digits(_)
Digits(n) ==
    IF n < 10 THEN <<DigitChars[n + 1]>>
    ELSE Digits(n \div 10) \o <<DigitChars[(n % 10) + 1]>>

\* markdown.render of a one-paragraph text
MarkdownRender(text) == <<"<","p",">">> \o text \o <<"<","/","p",">">>

TimeoutSet == 30000
TimeoutClear == 0

----------------------------------------------------------------------------
(* State *)

VARIABLES
    config,      \* [allowed_users, name]: loaded in start(), read-only afterwards
    queue,       \* handler invocations the framework has dispatched, not yet started
    task,        \* task[t]: the coroutine of one handler invocation
    timeline,    \* the events stored by the homeserver, by event id (1..Len)
    typing,      \* typing[room]: the bot's composing indicator as the room shows it
    received,    \* number of inbound events delivered so far
    api_calls,   \* api_calls[id]: completion requests issued for inbound event id
    pure_in,     \* input of the function under check (text / allow-list specifications)
    pure_out     \* its results

vars == <<config, queue, task, timeline, typing, received, api_calls,
          pure_in, pure_out>>

NumTasks == 2
Tasks == 1..NumTasks

IdleTask ==
    [pc |-> "idle", handler |-> "none", evt |-> NoEvt, gate |-> "pending",
     fetched |-> FALSE, marked_read |-> FALSE, typing_calls |-> <<>>,
     query |-> <<>>, api |-> NoOutcome, parsed |-> FALSE, response |-> <<>>,
     exc |-> NoExc, client_failed |-> FALSE, escaped |-> FALSE,
     members |-> "none", parent |-> "none", send_failed |-> FALSE]

OffTask == [IdleTask EXCEPT !.pc = "off"]

NoPure == [kind |-> "none"]

\* events the room already holds when the plugin starts: a user's message, and
\* a message of another user that carries the marker key
InitialTimeline ==
    << [room |-> "!group", sender |-> Alice, msgtype |-> MsgText, body |-> BodyPlain,
        formatted |-> <<>>, marker |-> FALSE, for_evt |-> 0, via |-> "user"],
       [room |-> "!group", sender |-> Mallory, msgtype |-> MsgText, body |-> BodyPlain,
        formatted |-> <<>>, marker |-> TRUE, for_evt |-> 0, via |-> "user"] >>

Configs == [allowed_users : AllowLists, name : {DefaultName}]

InitCommon ==
    /\ config \in Configs
    /\ queue = {}
    /\ timeline = InitialTimeline
    /\ typing = [r \in Rooms |-> FALSE]
    /\ received = 0
    /\ api_calls = [id \in 1..MaxEvents |-> 0]

\* one event at a time: a single handler task
Init ==
    /\ InitCommon
    /\ task = [t \in Tasks |-> IF t = 1 THEN IdleTask ELSE OffTask]
    /\ pure_in = NoPure
    /\ pure_out = NoPure

----------------------------------------------------------------------------
(* The responder gate: should_respond (lines 44-83) *)

\* mutation: the sender is not compared with the bot's own id
gate_ignored_self_allowed(evt) ==
    \/ StartsWith(evt.body, CmdPrefix)
    \/ evt.msgtype # MsgText

\* mutation: bodies that start with `!` are not ignored
gate_ignored_commands_allowed(evt) ==
    \/ evt.sender = BotMxid
    \/ evt.msgtype # MsgText

\* lines 46-49
gate_ignored(evt) ==
    \/ evt.sender = BotMxid
    \/ StartsWith(evt.body, CmdPrefix)
    \/ evt.msgtype # MsgText

\* line 54-55
gate_addressed(cfg, evt) ==
    \/ name_mentioned(cfg.name, evt.body)
    \/ StartsWith(evt.body, SonarToken)

\* lines 46-56, the part of should_respond before its first await:
\* "no" / "yes" when it returns, "members" when it goes on to line 60
gate_sync(cfg, evt) ==
    IF gate_ignored(evt) THEN "no"
    ELSE IF gate_addressed(cfg, evt)
    THEN (IF user_allowed(cfg.allowed_users, evt.sender) THEN "yes" ELSE "no")
    ELSE "members"

\* lines 67-69: the event declares a reply-to relation
has_reply(evt) == evt.reply_to # 0

\* mutation: the parent's author is not compared with the bot's own id
parent_qualifies_any_sender(parent) == parent.marker

\* lines 75-78 on a fetched parent event
parent_qualifies(parent) ==
    /\ parent.sender = BotMxid
    /\ parent.marker

\* where the coroutine goes once should_respond has returned `answer`
AfterGate(tk, answer) ==
    IF answer THEN [tk EXCEPT !.gate = "yes", !.pc = "mark_read"]
    ELSE [tk EXCEPT !.gate = "no", !.pc = "done"]

\* the command decorator of lines 151-152: `!sonar <raw text>`, text required
is_sonar_command(evt) ==
    /\ evt.msgtype = MsgText
    /\ StartsWith(evt.body, SonarToken \o <<" ">>)
    /\ Strip(DropFirst(evt.body, 7)) # <<>>

\* the sonar handler is registered next to on_message: a command event is
\* dispatched to both
CommandInvocations(evt) ==
    IF is_sonar_command(evt) THEN {[handler |-> "sonar", evt |-> evt]} ELSE {}

\* on_message / sonar is entered (lines 86-87, 153-155) and should_respond runs
\* up to its first await (lines 46-56)
Enter(handler, evt) ==
    LET g == gate_sync(config, evt)
        tk == [IdleTask EXCEPT !.handler = handler, !.evt = evt]
    IN  IF g = "members" THEN [tk EXCEPT !.pc = "members"]
        ELSE AfterGate(tk, g = "yes")

\* An inbound room event is delivered: on_message is entered for it in a task
\* of its own (line 85), and the sonar handler is dispatched if it is a command.
Arrive(t) ==
    /\ received < MaxEvents
    /\ queue = {}
    /\ task[t].pc = "idle"
    /\ \E sender \in Senders, room \in Rooms, body \in Bodies,
          msgtype \in {MsgText, MsgImage}, reply_to \in 0..Len(timeline) :
          LET evt == [id |-> received + 1, sender |-> sender, room |-> room,
                      body |-> body, msgtype |-> msgtype, reply_to |-> reply_to]
          IN  /\ task' = [task EXCEPT ![t] = Enter("on_message", evt)]
              /\ queue' = CommandInvocations(evt)
    /\ received' = received + 1
    /\ UNCHANGED <<config, timeline, typing, api_calls, pure_in, pure_out>>

\* A message the bot itself sent comes back to it as an inbound event.
Echo(t) ==
    /\ received < MaxEvents
    /\ queue = {}
    /\ task[t].pc = "idle"
    /\ \E k \in 1..Len(timeline) :
          LET evt == [id |-> received + 1, sender |-> BotMxid,
                      room |-> timeline[k].room, body |-> timeline[k].body,
                      msgtype |-> timeline[k].msgtype, reply_to |-> 0]
          IN  /\ timeline[k].sender = BotMxid
              /\ task' = [task EXCEPT ![t] = Enter("on_message", evt)]
              /\ queue' = CommandInvocations(evt)
    /\ received' = received + 1
    /\ UNCHANGED <<config, timeline, typing, api_calls, pure_in, pure_out>>

\* a dispatched command handler is entered in a free task (lines 151-155)
Start(t) ==
    /\ task[t].pc = "idle"
    /\ \E inv \in queue :
          /\ queue' = queue \ {inv}
          /\ task' = [task EXCEPT ![t] = Enter(inv.handler, inv.evt)]
    /\ UNCHANGED <<config, timeline, typing, received, api_calls,
                   pure_in, pure_out>>

\* mutation: every room with two or more joined members counts as direct
is_direct_room_at_least(count) == count >= 2

\* line 61
is_direct_room(count) == count = 2

\* lines 59-64, then lines 67-69: the joined-members lookup
GetMembers(t) ==
    /\ task[t].pc = "members"
    /\ \E ok \in BOOLEAN :
          LET tk == [task[t] EXCEPT !.members = IF ok THEN "ok" ELSE "failed"]
              next == IF has_reply(tk.evt) THEN [tk EXCEPT !.pc = "parent"]
                      ELSE AfterGate(tk, FALSE)
          IN  task' = [task EXCEPT ![t] =
                         IF ok /\ is_direct_room(JoinedCount[tk.evt.room])
                         THEN AfterGate(tk, user_allowed(config.allowed_users,
                                                         tk.evt.sender))
                         ELSE next]
    /\ UNCHANGED <<config, queue, timeline, typing, received, api_calls,
                   pure_in, pure_out>>

\* mutation: a failed parent fetch is not caught and leaves the handler
GetParent_propagates(t) ==
    /\ task[t].pc = "parent"
    /\ \E ok \in BOOLEAN :
          LET parent == timeline[task[t].evt.reply_to]
              found == ok /\ parent.room = task[t].evt.room
              tk == [task[t] EXCEPT !.fetched = TRUE,
                                    !.parent = IF found THEN "ok" ELSE "failed"]
          IN  task' = [task EXCEPT ![t] =
                         IF found
                         THEN AfterGate(tk, /\ parent_qualifies(parent)
                                            /\ user_allowed(config.allowed_users,
                                                            tk.evt.sender))
                         ELSE [tk EXCEPT !.pc = "done", !.escaped = TRUE]]
    /\ UNCHANGED <<config, queue, timeline, typing, received, api_calls,
                   pure_in, pure_out>>

\* lines 70-83: the parent event is fetched from the event's room; a fetch
\* that fails (or finds no such event in that room) raises and is logged
GetParent(t) ==
    /\ task[t].pc = "parent"
    /\ \E ok \in BOOLEAN :
          LET parent == timeline[task[t].evt.reply_to]
              found == ok /\ parent.room = task[t].evt.room
              tk == [task[t] EXCEPT !.fetched = TRUE,
                                    !.parent = IF found THEN "ok" ELSE "failed"]
          IN  task' = [task EXCEPT ![t] =
                         IF found /\ parent_qualifies(parent)
                         THEN AfterGate(tk, user_allowed(config.allowed_users,
                                                         tk.evt.sender))
                         ELSE AfterGate(tk, FALSE)]
    /\ UNCHANGED <<config, queue, timeline, typing, received, api_calls,
                   pure_in, pure_out>>

----------------------------------------------------------------------------
(* The completion call: _call_openrouter (lines 121-149) *)

\* what the provider and the transport can do with one request
ApiOutcomes ==
    {[kind |-> "transport", status |-> 0, readable |-> FALSE, wellformed |-> FALSE,
      content |-> <<>>]}
    \cup [kind : {"response"}, status : Statuses \ {200}, readable : BOOLEAN,
          wellformed : {FALSE}, content : {<<>>}]
    \cup [kind : {"response"}, status : {200}, readable : {TRUE},
          wellformed : {TRUE}, content : Answers]
    \cup [kind : {"response"}, status : {200}, readable : BOOLEAN,
          wellformed : {FALSE}, content : {<<>>}]

\* line 143
is_api_error(status) == status # 200

\* mutation: a non-200 status raises (as raise_for_status() would)
call_openrouter_raise_for_status(o) ==
    IF o.kind = "transport" \/ is_api_error(o.status)
    THEN [exc |-> ExcTransport, value |-> <<>>, parsed |-> FALSE]
    ELSE IF o.readable /\ o.wellformed
    THEN [exc |-> NoExc, value |-> o.content, parsed |-> TRUE]
    ELSE [exc |-> ExcPayload, value |-> <<>>, parsed |-> TRUE]

\* lines 142-149: [exc, value, parsed]: the exception raised (NoExc if none),
\* the string returned, and whether the payload was parsed as an answer
call_openrouter(o) ==
    IF o.kind = "transport"
    THEN [exc |-> ExcTransport, value |-> <<>>, parsed |-> FALSE]
    ELSE IF is_api_error(o.status)
    THEN (IF o.readable
          THEN [exc |-> NoExc, value |-> ErrorPrefix \o Digits(o.status), parsed |-> FALSE]
          ELSE [exc |-> ExcTransport, value |-> <<>>, parsed |-> FALSE])
    ELSE IF o.readable /\ o.wellformed
    THEN [exc |-> NoExc, value |-> o.content, parsed |-> TRUE]
    ELSE [exc |-> ExcPayload, value |-> <<>>, parsed |-> TRUE]

----------------------------------------------------------------------------
(* The answer pipeline: on_message (lines 90-119) *)

\* an exception raised in the try block is handled at line 115
Raise(tk, e) == [tk EXCEPT !.exc = e, !.pc = "except"]

\* line 91
MarkRead(t) ==
    /\ task[t].pc = "mark_read"
    /\ \E ok \in BOOLEAN :
          task' = [task EXCEPT ![t] =
                     IF ok
                     THEN [task[t] EXCEPT !.marked_read = TRUE, !.pc = "set_typing"]
                     ELSE Raise([task[t] EXCEPT !.client_failed = TRUE], ExcMarkRead)]
    /\ UNCHANGED <<config, queue, timeline, typing, received, api_calls,
                   pure_in, pure_out>>

\* line 92
SetTyping(t) ==
    /\ task[t].pc = "set_typing"
    /\ LET tk == [task[t] EXCEPT !.typing_calls = Append(@, TimeoutSet)]
       IN  \E ok \in BOOLEAN :
             IF ok
             THEN /\ typing' = [typing EXCEPT ![tk.evt.room] = TRUE]
                  /\ task' = [task EXCEPT ![t] = [tk EXCEPT !.pc = "call_api"]]
             ELSE /\ typing' = typing
                  /\ task' = [task EXCEPT ![t] =
                                Raise([tk EXCEPT !.client_failed = TRUE], ExcTyping)]
    /\ UNCHANGED <<config, queue, timeline, received, api_calls,
                   pure_in, pure_out>>

\* lines 95-103: the query is derived and the completion request is issued
CallApi(t) ==
    /\ task[t].pc = "call_api"
    /\ LET q == derive_query(config.name, task[t].evt.body)
       IN  /\ api_calls' = [api_calls EXCEPT ![task[t].evt.id] = @ + 1]
           /\ \E o \in ApiOutcomes :
                LET r == call_openrouter(o)
                    tk == [task[t] EXCEPT !.query = q, !.api = o, !.parsed = r.parsed]
                IN  task' = [task EXCEPT ![t] =
                               IF r.exc # NoExc THEN Raise(tk, r.exc)
                               ELSE [tk EXCEPT !.response = r.value, !.pc = "respond"]]
    /\ UNCHANGED <<config, queue, timeline, typing, received,
                   pure_in, pure_out>>

\* mutation: the answer is sent without the marker key
answer_content_unmarked(tk) ==
    [room |-> tk.evt.room, sender |-> BotMxid, msgtype |-> MsgNotice,
     body |-> tk.response, formatted |-> MarkdownRender(tk.response),
     marker |-> FALSE, for_evt |-> tk.evt.id, via |-> "respond"]

\* lines 106-112: the outbound content built from the response
answer_content(tk) ==
    [room |-> tk.evt.room, sender |-> BotMxid, msgtype |-> MsgNotice,
     body |-> tk.response, formatted |-> MarkdownRender(tk.response),
     marker |-> TRUE, for_evt |-> tk.evt.id, via |-> "respond"]

\* mutation: the failure reply carries the marker key too
failure_content_marked(tk) ==
    [room |-> tk.evt.room, sender |-> BotMxid, msgtype |-> MsgNotice,
     body |-> FailurePrefix \o tk.exc, formatted |-> MarkdownRender(FailurePrefix \o tk.exc),
     marker |-> TRUE, for_evt |-> tk.evt.id, via |-> "except"]

\* line 117: the failure text, sent without the marker key
failure_content(tk) ==
    [room |-> tk.evt.room, sender |-> BotMxid, msgtype |-> MsgNotice,
     body |-> FailurePrefix \o tk.exc, formatted |-> MarkdownRender(FailurePrefix \o tk.exc),
     marker |-> FALSE, for_evt |-> tk.evt.id, via |-> "except"]

\* line 113
Respond(t) ==
    /\ task[t].pc = "respond"
    /\ \E ok \in BOOLEAN :
          IF ok
          THEN /\ timeline' = Append(timeline, answer_content(task[t]))
               /\ task' = [task EXCEPT ![t].pc = "finally"]
          ELSE /\ timeline' = timeline
               /\ task' = [task EXCEPT ![t] =
                             Raise([task[t] EXCEPT !.client_failed = TRUE,
                                                   !.send_failed = TRUE], ExcSend)]
    /\ UNCHANGED <<config, queue, typing, received, api_calls,
                   pure_in, pure_out>>

\* mutation: the exception is logged and no failure reply is sent
Except_silent(t) ==
    /\ task[t].pc = "except"
    /\ task' = [task EXCEPT ![t].pc = "finally"]
    /\ UNCHANGED <<config, queue, timeline, typing, received, api_calls,
                   pure_in, pure_out>>

\* mutation: the handler ends after the failure reply, the indicator is only
\* cleared on the path without exception
Except_skip_finally(t) ==
    /\ task[t].pc = "except"
    /\ \E ok \in BOOLEAN :
          IF ok
          THEN /\ timeline' = Append(timeline, [room |-> task[t].evt.room,
                     sender |-> BotMxid, msgtype |-> MsgNotice,
                     body |-> FailurePrefix \o task[t].exc,
                     formatted |-> MarkdownRender(FailurePrefix \o task[t].exc),
                     marker |-> FALSE, for_evt |-> task[t].evt.id, via |-> "except"])
               /\ task' = [task EXCEPT ![t].pc = "done"]
          ELSE /\ timeline' = timeline
               /\ task' = [task EXCEPT ![t].pc = "done", ![t].escaped = TRUE,
                                       ![t].client_failed = TRUE,
                                       ![t].send_failed = TRUE]
    /\ UNCHANGED <<config, queue, typing, received, api_calls, pure_in, pure_out>>

\* lines 115-117: an exception raised here leaves the handler after the
\* finally block has run
Except(t) ==
    /\ task[t].pc = "except"
    /\ \E ok \in BOOLEAN :
          IF ok
          THEN /\ timeline' = Append(timeline, failure_content(task[t]))
               /\ task' = [task EXCEPT ![t].pc = "finally"]
          ELSE /\ timeline' = timeline
               /\ task' = [task EXCEPT ![t].pc = "finally", ![t].escaped = TRUE,
                                       ![t].client_failed = TRUE,
                                       ![t].send_failed = TRUE]
    /\ UNCHANGED <<config, queue, typing, received, api_calls,
                   pure_in, pure_out>>

\* lines 118-119
Finally(t) ==
    /\ task[t].pc = "finally"
    /\ LET tk == [task[t] EXCEPT !.typing_calls = Append(@, TimeoutClear), !.pc = "done"]
       IN  \E ok \in BOOLEAN :
             IF ok
             THEN /\ typing' = [typing EXCEPT ![tk.evt.room] = FALSE]
                  /\ task' = [task EXCEPT ![t] = tk]
             ELSE /\ typing' = typing
                  /\ task' = [task EXCEPT ![t] =
                                [tk EXCEPT !.escaped = TRUE, !.client_failed = TRUE]]
    /\ UNCHANGED <<config, queue, timeline, received, api_calls,
                   pure_in, pure_out>>

\* the handler's coroutine has ended; the task is free for the next invocation
Return(t) ==
    /\ task[t].pc = "done"
    /\ task' = [task EXCEPT ![t] = IdleTask]
    /\ UNCHANGED <<config, queue, timeline, typing, received, api_calls,
                   pure_in, pure_out>>

Next ==
    \/ \E t \in Tasks : Arrive(t)
    \/ \E t \in Tasks : Echo(t)
    \/ \E t \in Tasks : Start(t)
    \/ \E t \in Tasks : GetMembers(t)
    \/ \E t \in Tasks : GetParent(t)
    \/ \E t \in Tasks : MarkRead(t)
    \/ \E t \in Tasks : SetTyping(t)
    \/ \E t \in Tasks : CallApi(t)
    \/ \E t \in Tasks : Respond(t)
    \/ \E t \in Tasks : Except(t)
    \/ \E t \in Tasks : Finally(t)
    \/ \E t \in Tasks : Return(t)

Spec == Init /\ [][Next]_vars

----------------------------------------------------------------------------
(* The last event of a run, under the scheduling of the event loop: a        *)
(* handler that can take its next step eventually takes it, since every      *)
(* await of lines 59-119 returns or raises.                                  *)

\* the answer the bot sent earlier for the first event, a mention in the
\* group room
EarlierAnswer ==
    [room |-> "!group", sender |-> BotMxid, msgtype |-> MsgNotice,
     body |-> <<"4">>, formatted |-> MarkdownRender(<<"4">>),
     marker |-> TRUE, for_evt |-> 1, via |-> "respond"]

\* every event but the last has been handled, the first one with an answer
InitLive ==
    /\ config \in Configs
    /\ queue = {}
    /\ timeline = Append(InitialTimeline, EarlierAnswer)
    /\ typing = [r \in Rooms |-> FALSE]
    /\ received = MaxEvents - 1
    /\ api_calls = [id \in 1..MaxEvents |-> IF id = 1 THEN 1 ELSE 0]
    /\ task = [t \in Tasks |-> IF t = 1 THEN IdleTask ELSE OffTask]
    /\ pure_in = NoPure
    /\ pure_out = NoPure

\* the steps of a handler that has been entered or dispatched
Step(t) ==
    \/ Start(t)
    \/ GetMembers(t)
    \/ GetParent(t)
    \/ MarkRead(t)
    \/ SetTyping(t)
    \/ CallApi(t)
    \/ Respond(t)
    \/ Except(t)
    \/ Finally(t)
    \/ Return(t)

SpecLive == InitLive /\ [][Next]_vars /\ \A t \in Tasks : WF_vars(Step(t))

----------------------------------------------------------------------------
(* Several events in flight: every inbound event gets a task of its own      *)
(* (line 85), and the tasks interleave at their awaits.                      *)

\* every handler task is free
InitConc ==
    /\ InitCommon
    /\ task = [t \in Tasks |-> IdleTask]
    /\ pure_in = NoPure
    /\ pure_out = NoPure

\* the events delivered while others are in flight: text messages of one
\* user, with or without a name mention, in either room
ConcBodies == {BodyMention, BodyPlain}

\* An inbound text event is delivered while other handlers may be running:
\* on_message is entered for it in a free task (lines 85-88).
ArriveConc(t) ==
    /\ received < MaxEvents
    /\ task[t].pc = "idle"
    /\ \E room \in Rooms, body \in ConcBodies, reply_to \in 0..Len(timeline) :
          LET evt == [id |-> received + 1, sender |-> Alice, room |-> room,
                      body |-> body, msgtype |-> MsgText, reply_to |-> reply_to]
          IN  task' = [task EXCEPT ![t] = Enter("on_message", evt)]
    /\ received' = received + 1
    /\ UNCHANGED <<config, queue, timeline, typing, api_calls, pure_in, pure_out>>

NextConc ==
    \/ \E t \in Tasks : ArriveConc(t)
    \/ \E t \in Tasks : GetMembers(t)
    \/ \E t \in Tasks : GetParent(t)
    \/ \E t \in Tasks : MarkRead(t)
    \/ \E t \in Tasks : SetTyping(t)
    \/ \E t \in Tasks : CallApi(t)
    \/ \E t \in Tasks : Respond(t)
    \/ \E t \in Tasks : Except(t)
    \/ \E t \in Tasks : Finally(t)
    \/ \E t \in Tasks : Return(t)

SpecConc == InitConc /\ [][NextConc]_vars

----------------------------------------------------------------------------
(* The text functions on their own: every body up to MaxBodyLen characters  *)
(* over BodyAlphabet under the name "fx", and the bodies of the            *)
(* documentation under the default name.                                    *)

RECURSIVE StringsUpTo(_, _)
StringsUpTo(alphabet, n) ==
    IF n = 0 THEN {<<>>}
    ELSE LET shorter == StringsUpTo(alphabet, n - 1)
         IN  shorter \cup {Append(w, c) : w \in {v \in shorter : Len(v) = n - 1},
                                          c \in alphabet}

BodyAlphabet == {"f", "x", "F", "a", "@", " ", ":", "!", "\n"}
ShortName == <<"f", "x">>

BodyHello == DefaultName \o <<" ","h","e","l","l","o">>
BodyAtComma == <<"@">> \o DefaultName \o <<","," ","h","i">>
BodyHiBang == <<"h","i"," ">> \o DefaultName \o <<"!">>
BodyIshHello == DefaultName \o <<"i","s","h"," ","h","e","l","l","o">>
CapitalOfFrance == <<"c","a","p","i","t","a","l"," ","o","f"," ","F","r","a","n","c","e">>
BodySonarCapital == SonarToken \o <<" ">> \o CapitalOfFrance
BodyNameCapital == DefaultName \o <<":"," ">> \o CapitalOfFrance
DocBodies == {BodyHello, BodyAtComma, BodyHiBang, BodyIshHello, BodySonarCapital,
              BodyNameCapital, CapitalOfFrance} \cup Bodies

TextInputs ==
    [kind : {"text"}, name : {ShortName}, body : StringsUpTo(BodyAlphabet, MaxBodyLen)]
    \cup [kind : {"text"}, name : {DefaultName}, body : DocBodies]

\* the same question put to the bot by command and by addressing it by name
AsCommand(question) == SonarToken \o <<" ">> \o question
AsAddressed(name, question) == name \o <<":", " ">> \o question

InitText ==
    /\ InitCommon
    /\ task = [t \in Tasks |-> OffTask]
    /\ pure_in \in TextInputs
    /\ pure_out = NoPure

\* line 54 and lines 95-100 applied to the input body; lines 95-100 applied to
\* the input taken as a question and sent by each of the two routes
EvalText ==
    /\ pure_in.kind = "text"
    /\ pure_out = NoPure
    /\ pure_out' = [kind |-> "text",
                    mentioned |-> name_mentioned(pure_in.name, pure_in.body),
                    query |-> derive_query(pure_in.name, pure_in.body),
                    cmd_query |-> derive_query(pure_in.name, AsCommand(pure_in.body)),
                    name_query |-> derive_query(pure_in.name,
                                                AsAddressed(pure_in.name, pure_in.body))]
    /\ UNCHANGED <<config, queue, task, timeline, typing, received, api_calls, pure_in>>

SpecText == InitText /\ [][EvalText]_vars

----------------------------------------------------------------------------
(* user_allowed on its own: allow-lists of up to two patterns of up to     *)
(* MaxPatLen atoms against user ids of up to MaxIdLen characters, and the   *)
(* allow-list of the main model against a longer user id                    *)

PatternAtoms == {"a", ".", ".*", "$"}
IdAlphabet == {"a", "b"}

AliceEvil == Alice \o <<".","e","v","i","l",".","n","e","t">>

\* the patterns an allow-list can hold: non-empty regular expressions
Patterns == StringsUpTo(PatternAtoms, MaxPatLen) \ {<<>>}

AllowInputs ==
    [kind : {"allow"},
     allowed_users : {<<>>} \cup {<<p>> : p \in Patterns}
                            \cup {<<p, q>> : p \in Patterns, q \in Patterns},
     mxid : StringsUpTo(IdAlphabet, MaxIdLen)]
    \cup [kind : {"allow"}, allowed_users : AllowLists,
          mxid : Senders \cup {AliceEvil}]

InitAllow ==
    /\ InitCommon
    /\ task = [t \in Tasks |-> OffTask]
    /\ pure_in \in AllowInputs
    /\ pure_out = NoPure

\* lines 35-42 applied to the input
EvalAllow ==
    /\ pure_in.kind = "allow"
    /\ pure_out = NoPure
    /\ pure_out' = [kind |-> "allow",
                    allowed |-> user_allowed(pure_in.allowed_users, pure_in.mxid)]
    /\ UNCHANGED <<config, queue, task, timeline, typing, received, api_calls, pure_in>>

SpecAllow == InitAllow /\ [][EvalAllow]_vars

----------------------------------------------------------------------------
(* Properties *)

\* should_respond has returned for the handler of task t
Gated(t) == task[t].gate # "pending"

\* ids of the outbound events sent for inbound event id
RepliesFor(id) == {k \in 1..Len(timeline) : timeline[k].for_evt = id}

\* C1: an inbound event sent by the bot itself is never gated true, whatever
\* its body, kind, room or reply relation: its handler ends with no read
\* mark, no composing-indicator call, no completion request and no reply.
C1_OwnMessagesIgnored ==
    \A t \in Tasks :
        (task[t].evt # NoEvt /\ task[t].evt.sender = BotMxid) =>
            /\ task[t].gate = "no"
            /\ task[t].pc = "done"
            /\ ~task[t].marked_read
            /\ task[t].typing_calls = <<>>
            /\ api_calls[task[t].evt.id] = 0
            /\ RepliesFor(task[t].evt.id) = {}

\* the bot's own marker-carrying answer in the 2-member room came back to it
\* and its handler has ended
C1_Witness ==
    \E t \in Tasks, k \in 1..Len(timeline) :
        /\ task[t].pc = "done"
        /\ task[t].evt.sender = BotMxid
        /\ task[t].evt.room = "!dm"
        /\ JoinedCount["!dm"] = 2
        /\ timeline[k].sender = BotMxid
        /\ timeline[k].marker
        /\ timeline[k].room = "!dm"
        /\ timeline[k].body = task[t].evt.body

\* C2 (as claimed): for a text message of another user whose body starts
\* with `!sonar`, the gate's answer is the allow-list check on the sender,
\* in the room-message handler and in the sonar command handler alike.
C2_SonarGateIsAllowCheck ==
    \A t \in Tasks :
        ( /\ Gated(t)
          /\ task[t].evt.sender # BotMxid
          /\ task[t].evt.msgtype = MsgText
          /\ StartsWith(task[t].evt.body, SonarToken) ) =>
            ((task[t].gate = "yes") <=>
                user_allowed(config.allowed_users, task[t].evt.sender))

\* C3: user_allowed is true for every id when the allow-list is empty, and
\* otherwise true exactly when re.match succeeds for at least one pattern.
C3_UserAllowed ==
    pure_out.kind = "allow" =>
        (pure_out.allowed <=>
            \/ Len(pure_in.allowed_users) = 0
            \/ \E i \in 1..Len(pure_in.allowed_users) :
                  ReMatch(pure_in.allowed_users[i], pure_in.mxid))

\* an id let in by the second of two patterns, the first not matching it
C3_Witness ==
    /\ pure_out.kind = "allow"
    /\ Len(pure_in.allowed_users) = 2
    /\ pure_out.allowed
    /\ ~ReMatch(pure_in.allowed_users[1], pure_in.mxid)
    /\ ReMatch(pure_in.allowed_users[2], pure_in.mxid)

\* a pattern matched against the whole of s (re.fullmatch), atoms i.. from j
RECURSIVE FullMatchFrom(_, _, _, _)
FullMatchFrom(p, s, i, j) ==
    IF i > Len(p) THEN j = Len(s) + 1
    ELSE IF p[i] = ".*" THEN
        \E k \in j..(Len(s) + 1) :
            /\ \A m \in j..(k - 1) : s[m] # "\n"
            /\ FullMatchFrom(p, s, i + 1, k)
    ELSE IF p[i] = "$" THEN
        AtDollar(s, j) /\ FullMatchFrom(p, s, i + 1, j)
    ELSE IF p[i] = "." THEN
        j <= Len(s) /\ s[j] # "\n" /\ FullMatchFrom(p, s, i + 1, j + 1)
    ELSE IF p[i] = "\\." THEN
        j <= Len(s) /\ s[j] = "." /\ FullMatchFrom(p, s, i + 1, j + 1)
    ELSE
        j <= Len(s) /\ s[j] = p[i] /\ FullMatchFrom(p, s, i + 1, j + 1)

\* C4 (as claimed): with a non-empty allow-list an id is allowed only if a
\* pattern matches the full id string; an id of which only a proper prefix
\* matches is refused.
C4_FullIdentityMatch ==
    (pure_out.kind = "allow" /\ Len(pure_in.allowed_users) > 0 /\ pure_out.allowed) =>
        \E i \in 1..Len(pure_in.allowed_users) :
            FullMatchFrom(pure_in.allowed_users[i], pure_in.mxid, 1, 1)

\* the bot name stands at position j of body as a token of its own: at the
\* start of the body or after whitespace, an `@` allowed in front of it, and
\* followed by one of space : , . ! ? or by the end of the body; with
\* final_newline, a newline that ends the body counts as the end too
StandaloneAt(name, body, j, final_newline) ==
    LET e == j + Len(name)
    IN  /\ NameAt(name, body, j)
        /\ \/ j = 1
           \/ IsSpace(body[j - 1])
           \/ (body[j - 1] = "@" /\ (j = 2 \/ IsSpace(body[j - 2])))
        /\ \/ e = Len(body) + 1
           \/ (e <= Len(body) /\ body[e] \in {" ", ":", ",", ".", "!", "?"})
           \/ (final_newline /\ e = Len(body) /\ body[e] = "\n")

\* the four bodies of the documentation, under the default name
C5_Examples ==
    (pure_out.kind = "text" /\ pure_in.name = DefaultName) =>
        /\ pure_in.body \in {BodyHello, BodyAtComma, BodyHiBang} => pure_out.mentioned
        /\ pure_in.body = BodyIshHello => ~pure_out.mentioned

\* C5 (as claimed): the gate's name pattern matches exactly when the name
\* stands as a token of its own, case-insensitively, followed by one of
\* space : , . ! ? or by the end of the body.
C5_MentionExactlyStandalone ==
    /\ C5_Examples
    /\ pure_out.kind = "text" =>
          (pure_out.mentioned <=>
              \E j \in 1..Len(pure_in.body) :
                  StandaloneAt(pure_in.name, pure_in.body, j, FALSE))

\* C5 (amended): the same, where a single newline that ends the body also
\* counts as the end of the body after the name.
C5_MentionStandaloneOrFinalNewline ==
    /\ C5_Examples
    /\ pure_out.kind = "text" =>
          (pure_out.mentioned <=>
              \E j \in 1..Len(pure_in.body) :
                  StandaloneAt(pure_in.name, pure_in.body, j, TRUE))

\* a body that ends with the upper-case name and a newline is matched
C5_Witness ==
    /\ pure_out.kind = "text"
    /\ pure_in.name = ShortName
    /\ pure_in.body = <<"F", "x", "\n">>
    /\ pure_out.mentioned

\* q is s without its leading and trailing whitespace
IsTrimOf(q, s) ==
    IF q = <<>> THEN \A i \in 1..Len(s) : IsSpace(s[i])
    ELSE /\ ~IsSpace(q[1])
         /\ ~IsSpace(q[Len(q)])
         /\ \E a \in 0..(Len(s) - Len(q)) :
               /\ SubSeq(s, a + 1, a + Len(q)) = q
               /\ \A i \in 1..a : IsSpace(s[i])
               /\ \A i \in (a + Len(q) + 1)..Len(s) : IsSpace(s[i])

\* the bot name occurs nowhere in text (in any letter case)
NameFree(name, text) == \A j \in 1..Len(text) : ~NameAt(name, text, j)

\* the first character of text that is not whitespace, if any, is none of : , . ! ?
NoLeadingPunctuation(text) ==
    LET t == LStrip(text)
    IN  t = <<>> \/ t[1] \notin {":", ",", ".", "!", "?"}

\* what C6 says of a single body: the command route removes the token and
\* the surrounding whitespace; the other route removes the name and trims
\* (a body without the name is only trimmed); the documented bodies give
\* "capital of France"
C6_SingleBody ==
    pure_out.kind = "text" =>
        /\ StartsWith(pure_in.body, SonarToken) =>
              IsTrimOf(pure_out.query, SubSeq(pure_in.body, 7, Len(pure_in.body)))
        /\ (~StartsWith(pure_in.body, SonarToken) /\ NameFree(pure_in.name, pure_in.body)) =>
              IsTrimOf(pure_out.query, pure_in.body)
        /\ IsTrimOf(pure_out.query, pure_out.query)
        /\ (pure_in.name = DefaultName
              /\ pure_in.body \in {BodySonarCapital, BodyNameCapital}) =>
              pure_out.query = CapitalOfFrance
        /\ IsTrimOf(pure_out.cmd_query, pure_in.body)

Called(t) == task[t].api.kind # "none"

\* C7 (as claimed): for a body that does not start with the command token,
\* only mentions the gate recognises are removed: a body in which the gate
\* finds no mention reaches the completion API unchanged (but trimmed).
C7_OnlyGateMentionsRemoved ==
    \A t \in Tasks :
        ( /\ Called(t)
          /\ ~StartsWith(task[t].evt.body, SonarToken)
          /\ ~name_mentioned(config.name, task[t].evt.body) ) =>
            task[t].query = Strip(task[t].evt.body)

\* the event handled by task t replies to an event of its own room that the
\* bot sent and that carries the marker, and the handler has fetched it
RepliesToBotAnswer(t) ==
    /\ task[t].evt.reply_to # 0
    /\ task[t].fetched
    /\ timeline[task[t].evt.reply_to].sender = BotMxid
    /\ timeline[task[t].evt.reply_to].marker
    /\ timeline[task[t].evt.reply_to].room = task[t].evt.room

\* C8: in a room whose member count is not 2, an event that is gated true
\* without replying to a marker-carrying event of the bot is one that
\* addresses the bot (rule 2); that is, without a name mention the gate is
\* true only for a reply whose parent exists, was sent by the bot and
\* carries the marker.
C8_ReplyChainNeedsBotMarker ==
    \A t \in Tasks :
        ( /\ task[t].gate = "yes"
          /\ JoinedCount[task[t].evt.room] # 2
          /\ ~RepliesToBotAnswer(t) ) =>
            gate_addressed(config, task[t].evt)

\* an allowed sender's reply, in the group room, to another user's event that
\* carries the marker has been fetched and refused
C8_Witness ==
    \E t \in Tasks :
        /\ task[t].pc = "done"
        /\ task[t].gate = "no"
        /\ task[t].fetched
        /\ task[t].evt.room = "!group"
        /\ task[t].evt.body = BodyPlain
        /\ task[t].evt.reply_to # 0
        /\ timeline[task[t].evt.reply_to].marker
        /\ timeline[task[t].evt.reply_to].sender # BotMxid
        /\ timeline[task[t].evt.reply_to].room = "!group"
        /\ user_allowed(config.allowed_users, task[t].evt.sender)

\* the provider answered task t's request with an error status and a
\* readable body, and no call to the chat client failed
ProviderErrorOnly(t) ==
    /\ task[t].api.kind = "response"
    /\ task[t].api.status # 200
    /\ task[t].api.readable
    /\ ~task[t].client_failed

\* C9: when the provider responds with a non-success status, the reply sent
\* for the event is "Error: API returned status <status>", nothing is raised
\* and the payload is not parsed as an answer.
C9_ProviderErrorReply ==
    \A t \in Tasks :
        (task[t].pc = "done" /\ ProviderErrorOnly(t)) =>
            /\ \E k \in RepliesFor(task[t].evt.id) :
                  timeline[k].body = ErrorPrefix \o Digits(task[t].api.status)
            /\ Cardinality(RepliesFor(task[t].evt.id)) = 1
            /\ task[t].exc = NoExc
            /\ ~task[t].escaped
            /\ ~task[t].parsed

\* status 500 has been answered with "Error: API returned status 500"
C9_Witness ==
    \E t \in Tasks :
        /\ task[t].pc = "done"
        /\ ProviderErrorOnly(t)
        /\ task[t].api.status = 500
        /\ \E k \in RepliesFor(task[t].evt.id) :
              timeline[k].body = ErrorPrefix \o <<"5", "0", "0">>

\* C10: whatever happens after the gate accepted an event (success, error
\* status, transport exception, failure of mark-read, set-typing or reply
\* dispatch), the last composing-indicator call made for it is a clear.
C10_TypingClearedLast ==
    \A t \in Tasks :
        (task[t].pc = "done" /\ task[t].gate = "yes") =>
            /\ task[t].typing_calls # <<>>
            /\ task[t].typing_calls[Len(task[t].typing_calls)] = TimeoutClear

\* the completion call raised a transport exception; the indicator was set
\* and then cleared
C10_Witness ==
    \E t \in Tasks :
        /\ task[t].pc = "done"
        /\ task[t].api.kind = "transport"
        /\ task[t].exc = ExcTransport
        /\ task[t].typing_calls = <<TimeoutSet, TimeoutClear>>

\* C11 (as claimed): an exception raised anywhere while an event is handled
\* is caught at the pipeline boundary and answered with the failure reply;
\* none leaves on_message.
C11_NoExceptionEscapes ==
    \A t \in Tasks :
        task[t].pc = "done" =>
            /\ ~task[t].escaped
            /\ task[t].exc # NoExc =>
                  \E k \in RepliesFor(task[t].evt.id) : timeline[k].via = "except"

\* C12 (as claimed): a failure of mark_read or set_typing does not abort the
\* pipeline: the completion request is still issued for the event.
C12_StepOneBestEffort ==
    \A t \in Tasks :
        (task[t].pc = "done" /\ task[t].gate = "yes") => Called(t)

\* C13: no inbound event gets more than one completion request, the
\* room-message handler and the sonar handler counted together; a request
\* that failed is not issued again.
C13_AtMostOneCompletion ==
    \A id \in 1..MaxEvents : api_calls[id] <= 1

\* a handler has ended after its only completion request raised
C13_Witness ==
    \E t \in Tasks :
        /\ task[t].pc = "done"
        /\ task[t].api.kind = "transport"
        /\ api_calls[task[t].evt.id] = 1

\* the completion call of task t returned the provider's content and nothing
\* raised up to the dispatch of the reply
Answered(t) ==
    /\ task[t].pc \in {"finally", "done"}
    /\ task[t].exc = NoExc
    /\ task[t].api.kind = "response"
    /\ task[t].api.status = 200

\* the event handled by task t replies to an answer the bot dispatched in the
\* same room, and the handler has fetched that answer
RepliesToDispatchedAnswer(t) ==
    /\ task[t].parent = "ok"
    /\ timeline[task[t].evt.reply_to].via = "respond"

\* C14: after a successful completion call the reply sent for the event is a
\* notice in the event's room whose body is the returned content, whose
\* formatted body is the rendering of that content and whose marker is true;
\* a later reply to it whose parent fetch succeeds is gated true (rule 4)
\* when its sender is allowed.
C14_AnswerDispatch ==
    \A t \in Tasks :
        /\ Answered(t) =>
              /\ RepliesFor(task[t].evt.id) # {}
              /\ \A k \in RepliesFor(task[t].evt.id) :
                    /\ timeline[k].sender = BotMxid
                    /\ timeline[k].room = task[t].evt.room
                    /\ timeline[k].msgtype = MsgNotice
                    /\ timeline[k].body = task[t].api.content
                    /\ timeline[k].formatted = MarkdownRender(task[t].api.content)
                    /\ timeline[k].marker
        /\ ( /\ RepliesToDispatchedAnswer(t)
             /\ user_allowed(config.allowed_users, task[t].evt.sender) ) =>
                task[t].gate = "yes"

\* an allowed sender's plain reply, in the group room, to an answer the bot
\* dispatched has been gated true
C14_Witness ==
    \E t \in Tasks :
        /\ RepliesToDispatchedAnswer(t)
        /\ task[t].gate = "yes"
        /\ task[t].evt.room = "!group"
        /\ task[t].evt.body = BodyPlain
        /\ task[t].evt.sender = Alice
        /\ timeline[task[t].evt.reply_to].body \in Answers

\* C16: a lookup that fails degrades to "no match" and raises nothing: after
\* a failed joined-members lookup the gate goes on to rule 4 (the parent is
\* fetched when the event is a reply, the answer is false when it is not),
\* and after a failed parent fetch the answer is false. An allowed sender's
\* reply to a marker-carrying event of the bot is still gated true after a
\* failed joined-members lookup.
C16_LookupFailuresDegrade ==
    \A t \in Tasks :
        /\ task[t].parent = "failed" =>
              /\ task[t].gate = "no"
              /\ ~task[t].escaped
        /\ task[t].members = "failed" =>
              IF has_reply(task[t].evt)
              THEN \/ task[t].pc = "parent" /\ ~Gated(t)
                   \/ task[t].fetched /\ Gated(t)
              ELSE task[t].gate = "no" /\ ~task[t].escaped
        /\ ( /\ task[t].members = "failed"
             /\ task[t].parent = "ok"
             /\ parent_qualifies(timeline[task[t].evt.reply_to])
             /\ user_allowed(config.allowed_users, task[t].evt.sender) ) =>
                task[t].gate = "yes"

\* in the 2-member room both lookups failed for an allowed sender's reply to
\* an answer of the bot, and the handler ended with the answer false
C16_Witness ==
    \E t \in Tasks :
        /\ task[t].pc = "done"
        /\ task[t].gate = "no"
        /\ task[t].members = "failed"
        /\ task[t].parent = "failed"
        /\ task[t].evt.room = "!dm"
        /\ task[t].evt.sender = Alice
        /\ timeline[task[t].evt.reply_to].room = "!dm"
        /\ timeline[task[t].evt.reply_to].via = "respond"

\* C17: a text event of another sender that has no name mention and does not
\* start with `!` gets the joined-members lookup. When the lookup returns 2
\* members the answer is the allow-list check on the sender and the parent
\* event is not fetched; when it returns another number the gate goes on to
\* the reply-chain rule and, unless the event replies to a marker-carrying
\* event of the bot, answers false.
C17_DirectRoomHeuristic ==
    \A t \in Tasks :
        /\ (task[t].pc = "done" /\ task[t].members = "none") =>
              \/ gate_ignored(task[t].evt)
              \/ gate_addressed(config, task[t].evt)
        /\ (task[t].members = "ok" /\ JoinedCount[task[t].evt.room] = 2) =>
              /\ ~task[t].fetched
              /\ task[t].pc # "parent"
              /\ task[t].gate =
                    IF \/ config.allowed_users = <<>>
                       \/ \E i \in 1..Len(config.allowed_users) :
                             ReMatch(config.allowed_users[i], task[t].evt.sender)
                    THEN "yes" ELSE "no"
        /\ (task[t].members = "ok" /\ JoinedCount[task[t].evt.room] # 2) =>
              /\ IF has_reply(task[t].evt)
                 THEN task[t].pc = "parent" \/ task[t].fetched
                 ELSE task[t].gate = "no"
              /\ (Gated(t) /\ ~RepliesToBotAnswer(t)) => task[t].gate = "no"

\* in the 2-member room an allowed sender's plain reply to an answer of the
\* bot has been gated true without a fetch of the parent
C17_Witness ==
    \E t \in Tasks :
        /\ task[t].members = "ok"
        /\ task[t].gate = "yes"
        /\ ~task[t].fetched
        /\ task[t].evt.room = "!dm"
        /\ task[t].evt.body = BodyPlain
        /\ task[t].evt.reply_to # 0
        /\ timeline[task[t].evt.reply_to].via = "respond"

\* the allow-list admits the sender: the list is empty or one of its patterns
\* matches the sender's id from its start
Admitted(sender) ==
    \/ config.allowed_users = <<>>
    \/ \E i \in 1..Len(config.allowed_users) :
          ReMatch(config.allowed_users[i], sender)

\* something observable was done for the event task t handles
ActedOn(t) ==
    \/ task[t].gate = "yes"
    \/ task[t].marked_read
    \/ task[t].typing_calls # <<>>
    \/ api_calls[task[t].evt.id] > 0
    \/ RepliesFor(task[t].evt.id) # {}

\* C18: a read mark, a composing-indicator call, a completion request or an
\* outbound reply exists for an inbound event only if the allow-list admits
\* its sender, whichever rule the gate took (name mention, 2-member room,
\* reply chain).
C18_AllowListEnforced ==
    \A t \in Tasks :
        (task[t].evt.id # 0 /\ ActedOn(t)) => Admitted(task[t].evt.sender)

\* with a non-empty allow-list, a sender no pattern matches replied in the
\* group room to an answer of the bot; the parent was fetched and qualified,
\* and the handler ended with nothing done
C18_Witness ==
    \E t \in Tasks :
        /\ task[t].pc = "done"
        /\ task[t].gate = "no"
        /\ task[t].parent = "ok"
        /\ task[t].evt.sender = Mallory
        /\ config.allowed_users = <<AlicePattern>>
        /\ parent_qualifies(timeline[task[t].evt.reply_to])
        /\ RepliesFor(task[t].evt.id) = {}

\* C20: the failure reply sent from the exception handler never carries the
\* marker, and every outbound event that carries it was sent by the bot from
\* the answer dispatch of line 113; so a reply to a failure reply, with no
\* name mention and in a room whose member count is not 2, is never gated
\* true.
C20_MarkerOnlyOnAnswers ==
    /\ \A k \in 1..Len(timeline) :
          /\ timeline[k].via = "except" => ~timeline[k].marker
          /\ (timeline[k].for_evt # 0 /\ timeline[k].marker) =>
                /\ timeline[k].via = "respond"
                /\ timeline[k].sender = BotMxid
    /\ \A t \in Tasks :
          ( /\ task[t].gate = "yes"
            /\ JoinedCount[task[t].evt.room] # 2
            /\ has_reply(task[t].evt)
            /\ timeline[task[t].evt.reply_to].via = "except" ) =>
               gate_addressed(config, task[t].evt)

\* an allowed sender's plain reply, in the group room, to a failure reply of
\* the bot has been fetched and refused
C20_Witness ==
    \E t \in Tasks :
        /\ task[t].pc = "done"
        /\ task[t].gate = "no"
        /\ task[t].parent = "ok"
        /\ task[t].evt.room = "!group"
        /\ task[t].evt.sender = Alice
        /\ task[t].evt.body = BodyPlain
        /\ timeline[task[t].evt.reply_to].via = "except"
        /\ timeline[task[t].evt.reply_to].sender = BotMxid

\* C19 (as claimed): with two events of one room handled at the same time,
\* the handler that ends first (answer sent, indicator cleared, no call of
\* the chat client failed) leaves the room's composing indicator set while
\* the other handler's completion call is still pending.
C19_TypingHeldWhilePending ==
    \A t \in Tasks, u \in Tasks :
        ( /\ t # u
          /\ task[t].pc = "call_api"
          /\ ~task[t].client_failed
          /\ Answered(u)
          /\ task[u].pc = "done"
          /\ ~task[u].client_failed
          /\ task[u].evt.room = task[t].evt.room ) =>
             typing[task[t].evt.room]

\* C15: an event for which the gate answered true is never dropped: its
\* handler ends, and unless a send of the chat client failed exactly one
\* outbound reply exists for the event then (the answer, the provider-error
\* text or the failure text), also when the completion call raised.
C15_GatedEventGetsOneReply ==
    \A t \in Tasks :
        (task[t].gate = "yes") ~>
            ( /\ task[t].pc = "done"
              /\ ~task[t].send_failed =>
                    Cardinality(RepliesFor(task[t].evt.id)) = 1 )

\* a handler has ended whose completion call raised: the failure text is the
\* one reply sent for its event
C15_Witness ==
    \E t \in Tasks :
        /\ task[t].pc = "done"
        /\ task[t].api.kind = "transport"
        /\ ~task[t].send_failed
        /\ \E k \in RepliesFor(task[t].evt.id) :
              /\ timeline[k].via = "except"
              /\ RepliesFor(task[t].evt.id) = {k}

====
